---- MODULE Spec2Model ----
(***************************************************************************)
(* PFID codec (typescript/src/pfid.ts, typescript/src/errors.ts).          *)
(*                                                                         *)
(* A JavaScript string is modelled as the sequence of its UTF-16 code      *)
(* units, a Buffer as the sequence of its bytes (index i of the code is    *)
(* index i+1 here).  A call returns an outcome record:                     *)
(* a bare return, a tagged {ok: true}, a tagged {ok: false} or a throw.    *)
(***************************************************************************)
EXTENDS Integers, Sequences, FiniteSets, TLC

(***************************************************************************)
(* Bounds of the model.                                                    *)
(***************************************************************************)
\* number of distinct 10-byte randomness patterns the random source yields
NumRand == 2
\* wrong-length strings and buffers are off by 1..MaxLenDelta from the right length
MaxLenDelta == 1
\* longest pipeline of calls in one session
MaxCalls == 3

(***************************************************************************)
(* Numbers.  TLC's integers are 32 bits wide, a JavaScript number holds   *)
(* every integer up to 2^53: a number value carries two 24-bit limbs and   *)
(* a half flag, data = <<hi, lo, f>> standing for hi * 2^24 + lo + f/2     *)
(* with lo in 0 .. 2^24 - 1.  Bytes, 5-bit symbols and the operands of     *)
(* the bit operators are plain integers (already signed 32-bit).           *)
(***************************************************************************)
Limb == 2 ^ 24
Pow2(n) == 2 ^ n

JsNum(hi, lo) == [kind |-> "number", data |-> <<hi, lo, 0>>]
JsNumHalf(hi, lo) == [kind |-> "number", data |-> <<hi, lo, 1>>]
\* the number value of a small integer n
Num(n) == JsNum(n \div Limb, n % Limb)

\* a <= b on number values
NumLeq(a, b) ==
  \/ a.data[1] < b.data[1]
  \/ /\ a.data[1] = b.data[1]
     /\ \/ a.data[2] < b.data[2]
        \/ a.data[2] = b.data[2] /\ a.data[3] <= b.data[3]

\* Number.isInteger(x)
NumberIsInteger(x) == x.kind = "number" /\ x.data[3] = 0

\* x >> k in place of the division: the shift works on the low 32 bits of x
\* and takes its count modulo 32
FloorDivPow2_Shift(x, k) ==
  LET u == x.data[1] % 256
  IN ((IF u >= 128 THEN u - 256 ELSE u) * Limb + x.data[2]) \div Pow2(k % 32)

\* Math.floor(x / 2^k) for k >= 24
FloorDivPow2(x, k) == x.data[1] \div Pow2(k - 24)

\* ToInt32: the low 32 bits of an integer number, read as signed
ToInt32(x) ==
  LET u == x.data[1] % 256
  IN (IF u >= 128 THEN u - 256 ELSE u) * Limb + x.data[2]

RECURSIVE AndBits(_, _)
\* bitwise and of a signed 32-bit a with a non-negative mask b
AndBits(a, b) ==
  IF b = 0 THEN 0
  ELSE (a % 2) * (b % 2) + 2 * AndBits(a \div 2, b \div 2)

RECURSIVE OrBits(_, _)
\* bitwise or of two non-negative integers
OrBits(a, b) ==
  IF a = 0 THEN b
  ELSE IF b = 0 THEN a
  ELSE (IF (a % 2) + (b % 2) > 0 THEN 1 ELSE 0) + 2 * OrBits(a \div 2, b \div 2)

\* a & b, b >= 0
And(a, b) == AndBits(a, b)
\* a | b, a >= 0, b >= 0
Or(a, b) == OrBits(a, b)
\* a >> k (sign-propagating)
Sar(a, k) == a \div Pow2(k)
\* a << k, for a result that stays below 2^31
Shl(a, k) == a * Pow2(k)
\* storing a number into a Buffer element keeps its low 8 bits
ToUint8(x) == x % 256

\* buffer.readUInt32BE(offset)
ReadUInt32BE(buffer, offset) ==
  JsNum(buffer[offset + 1],
        buffer[offset + 2] * 65536 + buffer[offset + 3] * 256 + buffer[offset + 4])

\* the four bytes buffer.writeUInt32LE(value, offset) would store
UInt32BEBytes_LittleEndian(value) ==
  << value.data[2] % 256,
     (value.data[2] \div 256) % 256,
     value.data[2] \div 65536,
     value.data[1] % 256 >>

\* the four bytes buffer.writeUInt32BE(value, offset) stores, for 0 <= value < 2^32
UInt32BEBytes(value) ==
  << value.data[1] % 256,
     value.data[2] \div 65536,
     (value.data[2] \div 256) % 256,
     value.data[2] % 256 >>

(***************************************************************************)
(* Constants of the program.                                               *)
(***************************************************************************)
\* 2^48 - 1
MAX_TIMESTAMP == JsNum(16777215, 16777215)
\* 2^30 - 1
MAX_PARTITION == Num(1073741823)

\* '01234567abcdefghjkmnpqrstvwxyz89' as code units: the digits 8 and 9 moved
\* behind the letters
ENCODE_CHARS_DigitsLast ==
  << 48, 49, 50, 51, 52, 53, 54, 55,
     97, 98, 99, 100, 101, 102, 103, 104,
     106, 107, 109, 110, 112, 113, 114, 115, 116,
     118, 119, 120, 121, 122, 56, 57 >>

\* '0123456789abcdefghjkmnpqrstvwxyz' as code units
ENCODE_CHARS ==
  << 48, 49, 50, 51, 52, 53, 54, 55, 56, 57,
     97, 98, 99, 100, 101, 102, 103, 104,
     106, 107, 109, 110, 112, 113, 114, 115, 116,
     118, 119, 120, 121, 122 >>

DECODE_MAP ==
  ( 48 :> 0) @@ ( 49 :> 1) @@ ( 50 :> 2) @@ ( 51 :> 3) @@
  ( 52 :> 4) @@ ( 53 :> 5) @@ ( 54 :> 6) @@ ( 55 :> 7) @@
  ( 56 :> 8) @@ ( 57 :> 9) @@ ( 97 :> 10) @@ ( 98 :> 11) @@
  ( 99 :> 12) @@ (100 :> 13) @@ (101 :> 14) @@ (102 :> 15) @@
  (103 :> 16) @@ (104 :> 17) @@ (106 :> 18) @@ (107 :> 19) @@
  (109 :> 20) @@ (110 :> 21) @@ (112 :> 22) @@ (113 :> 23) @@
  (114 :> 24) @@ (115 :> 25) @@ (116 :> 26) @@ (118 :> 27) @@
  (119 :> 28) @@ (120 :> 29) @@ (121 :> 30) @@ (122 :> 31)

\* the character class [0-9a-z]
PATTERN_CLASS_AllLetters == (48 .. 57) \cup (97 .. 122)

\* the character class [0-9abcdefghjkmnpqrstvwxyz] of isPfid's pattern
PATTERN_CLASS ==
  (48 .. 57) \cup
  { 97, 98, 99, 100, 101, 102, 103, 104, 106, 107, 109, 110,
    112, 113, 114, 115, 116, 118, 119, 120, 121, 122 }

(***************************************************************************)
(* Values and outcomes.                                                    *)
(***************************************************************************)
Str(s) == [kind |-> "string", data |-> s]
Buf(b) == [kind |-> "buffer", data |-> b]
Bool(b) == [kind |-> "boolean", data |-> <<IF b THEN 1 ELSE 0>>]
Other(k) == [kind |-> k, data |-> <<>>]
Undefined == Other("undefined")

NoError == [name |-> "none", code |-> "none", message |-> ""]
Returns(v) == [tag |-> "return", value |-> v, error |-> NoError]
Ok(v) == [tag |-> "ok", value |-> v, error |-> NoError]
Fail(e) == [tag |-> "fail", value |-> Undefined, error |-> e]
Throws(e) == [tag |-> "throw", value |-> Undefined, error |-> e]

\* new Error(`Invalid partition: ...`) and the like
PlainError(msg) == [name |-> "Error", code |-> "none", message |-> msg]

\* JSON.stringify throws a TypeError on a BigInt and on a circular structure
JSONStringifyThrows(problem) == problem.kind \in {"bigint", "circular"}

MessagePrefix(code) ==
  CASE code = "invalid_binary" -> "invalid binary PFID: "
    [] code = "invalid_pfid" -> "invalid PFID: "
    [] code = "invalid_partition" -> "invalid partition: "

\* PfidError.make(code, problem), as the outcome of the call
PfidErrorMake(code, problem) ==
  IF JSONStringifyThrows(problem)
  THEN Throws([name |-> "TypeError", code |-> "none", message |-> "JSON.stringify"])
  ELSE Returns([name |-> "PfidError", code |-> code, message |-> MessagePrefix(code)])

\* return { ok: false, error: PfidError.make(code, problem) }
FailWith(code, problem) ==
  LET m == PfidErrorMake(code, problem)
  IN IF m.tag = "throw" THEN m ELSE Fail(m.value)

(***************************************************************************)
(* Crockford Base32 symbols.                                               *)
(***************************************************************************)
\* an uppercase alphabet
encodeChar_Upper(value) ==
  IF ENCODE_CHARS[value + 1] \in 97 .. 122
  THEN ENCODE_CHARS[value + 1] - 32
  ELSE ENCODE_CHARS[value + 1]

\* ENCODE_CHARS[value]
encodeChar(value) == ENCODE_CHARS[value + 1]

\* decodeChar without the toLowerCase call
toLowerCase_Identity(char) == <<char>>

\* String.prototype.toLowerCase on a one-unit string: A-Z map to a-z, the
\* Kelvin sign U+212A maps to 'k', U+0130 maps to the two units 'i' U+0307,
\* and every other code unit the model uses maps to itself
toLowerCase(char) ==
  IF char \in 65 .. 90 THEN <<char + 32>>
  ELSE IF char = 8490 THEN <<107>>
  ELSE IF char = 304 THEN <<105, 775>>
  ELSE <<char>>

\* decodeChar throws when DECODE_MAP has no entry for the lowercased character
decodeCharThrows(char) ==
  LET key == toLowerCase(char)
  IN ~ (Len(key) = 1 /\ key[1] \in DOMAIN DECODE_MAP)

decodeChar(char) == DECODE_MAP[toLowerCase(char)[1]]

(***************************************************************************)
(* Validation guards.                                                      *)
(***************************************************************************)
isValidTimestamp(timestamp) ==
  /\ NumberIsInteger(timestamp)
  /\ NumLeq(Num(0), timestamp)
  /\ NumLeq(timestamp, MAX_TIMESTAMP)

\* the partition compared against the bound of the timestamp
isValidPartition_TimestampBound(partition) ==
  /\ NumberIsInteger(partition)
  /\ NumLeq(Num(0), partition)
  /\ NumLeq(partition, MAX_TIMESTAMP)

isValidPartition(partition) ==
  /\ NumberIsInteger(partition)
  /\ NumLeq(Num(0), partition)
  /\ NumLeq(partition, MAX_PARTITION)

(***************************************************************************)
(* The bit cursor of unsafeEncode and unsafeDecode.                        *)
(***************************************************************************)
\* unsafeEncode without the readBits(2) call that skips the padding
ReadWidths_NoSkip ==
  <<3>> \o [i \in 1 .. 9 |-> 5] \o <<0>> \o [i \in 1 .. 6 |-> 5] \o [i \in 1 .. 16 |-> 5]

\* the counts of the successive readBits calls of unsafeEncode: t1..t10, the
\* skipped padding, p1..p6, r1..r16
ReadWidths ==
  <<3>> \o [i \in 1 .. 9 |-> 5] \o <<2>> \o [i \in 1 .. 6 |-> 5] \o [i \in 1 .. 16 |-> 5]

\* no readBits value dropped (an index past the last readBits call): the two
\* padding bits get a character
SkippedRead_None == Len(ReadWidths) + 1

\* the readBits call whose value is dropped
SkippedRead == 11

\* unsafeDecode without the writeBits(0, 2) call
WriteWidths_NoPadding ==
  <<3>> \o [i \in 1 .. 9 |-> 5] \o <<0>> \o [i \in 1 .. 6 |-> 5] \o [i \in 1 .. 16 |-> 5]

\* the counts of the successive writeBits calls of unsafeDecode: t1..t10, the
\* padding, p1..p6, r1..r16
WriteWidths ==
  <<3>> \o [i \in 1 .. 9 |-> 5] \o <<2>> \o [i \in 1 .. 6 |-> 5] \o [i \in 1 .. 16 |-> 5]

\* the writeBits call that writes the constant 0
PaddingWrite == 11

RECURSIVE readBitsLoop(_, _, _, _)
\* the for loop of readBits, with `count` iterations left
readBitsLoop(binary, bitOffset, count, value) ==
  IF count = 0 THEN value
  ELSE LET byteIndex == bitOffset \div 8
           bitIndex == 7 - (bitOffset % 8)
           bit == And(Sar(binary[byteIndex + 1], bitIndex), 1)
       IN readBitsLoop(binary, bitOffset + 1, count - 1, Or(Shl(value, 1), bit))

readBits(binary, bitOffset, count) == readBitsLoop(binary, bitOffset, count, 0)

RECURSIVE unsafeEncodeFrom(_, _, _, _)
\* the readBits calls from the k-th on, and the concatenation of the symbols
unsafeEncodeFrom(binary, k, bitOffset, out) ==
  IF k > Len(ReadWidths) THEN out
  ELSE LET v == readBits(binary, bitOffset, ReadWidths[k])
       IN unsafeEncodeFrom(binary, k + 1, bitOffset + ReadWidths[k],
                           IF k = SkippedRead THEN out ELSE Append(out, encodeChar(v)))

\* unsafeEncode(binary): the text, as code units
unsafeEncode(binary) == unsafeEncodeFrom(binary, 1, 0, <<>>)

RECURSIVE writeBitsLoop(_, _, _, _)
\* the for loop of writeBits, from i down to 0
writeBitsLoop(buffer, bitOffset, value, i) ==
  IF i < 0 THEN buffer
  ELSE LET byteIndex == bitOffset \div 8
           bitIndex == 7 - (bitOffset % 8)
           bit == And(Sar(value, i), 1)
           \* buffer[byteIndex] |= (bit << bitIndex)
           written == [buffer EXCEPT ![byteIndex + 1] = ToUint8(Or(@, Shl(bit, bitIndex)))]
       IN \* the test makes TLC compute the write before it goes on (a write
          \* never changes the length of a Buffer)
          IF Len(written) = Len(buffer)
          THEN writeBitsLoop(written, bitOffset + 1, value, i - 1)
          ELSE written

writeBits(buffer, bitOffset, value, count) ==
  writeBitsLoop(buffer, bitOffset, value, count - 1)

RECURSIVE unsafeDecodeFrom(_, _, _, _)
\* the writeBits calls from the k-th on; values holds t1..t10, p1..p6, r1..r16
unsafeDecodeFrom(values, k, bitOffset, buffer) ==
  IF k > Len(WriteWidths) THEN buffer
  ELSE LET v == IF k = PaddingWrite THEN 0
                ELSE IF k < PaddingWrite THEN values[k] ELSE values[k - 1]
           written == writeBits(buffer, bitOffset, v, WriteWidths[k])
       IN IF Len(written) = Len(buffer)
          THEN unsafeDecodeFrom(values, k + 1, bitOffset + WriteWidths[k], written)
          ELSE written

\* the buffer taken from Buffer.allocUnsafe(20), here with every bit set, in
\* place of Buffer.alloc(20, 0)
unsafeDecode_AllocUnsafe(pfid) ==
  IF \E i \in 1 .. 32 : decodeCharThrows(pfid[i])
  THEN Throws(PlainError("Invalid character"))
  ELSE Returns(Buf(unsafeDecodeFrom([i \in 1 .. 32 |-> decodeChar(pfid[i])],
                                    1, 0, [i \in 1 .. 20 |-> 255])))

\* unsafeDecode(pfid), for a string of 32 code units: the buffer, or the
\* Error decodeChar throws
unsafeDecode(pfid) ==
  IF \E i \in 1 .. 32 : decodeCharThrows(pfid[i])
  THEN Throws(PlainError("Invalid character"))
  ELSE Returns(Buf(unsafeDecodeFrom([i \in 1 .. 32 |-> decodeChar(pfid[i])],
                                    1, 0, [i \in 1 .. 20 |-> 0])))

\* the byte and the bit touched with bitIndex = bitOffset % 8, least
\* significant bit first
cursorVisit_LsbFirst(bitOffset) ==
  [bitOffset |-> bitOffset, byteIndex |-> bitOffset \div 8, bitIndex |-> bitOffset % 8]

\* one iteration of the loop of readBits / writeBits: the byte and the bit it
\* touches at the current bitOffset, before bitOffset++
cursorVisit(bitOffset) ==
  [bitOffset |-> bitOffset, byteIndex |-> bitOffset \div 8, bitIndex |-> 7 - (bitOffset % 8)]

RECURSIVE cursorVisits(_, _, _)
\* the iterations of the calls with the given counts, from the k-th call on
cursorVisits(counts, k, bitOffset) ==
  IF k > Len(counts) THEN <<>>
  ELSE [i \in 1 .. counts[k] |-> cursorVisit(bitOffset + i - 1)]
         \o cursorVisits(counts, k + 1, bitOffset + counts[k])

\* the iterations of one run of unsafeEncode
unsafeEncodeVisits == cursorVisits(ReadWidths, 1, 0)

\* the iterations of one run of unsafeDecode: none when a decodeChar call
\* throws, since all of them come before the first writeBits call
unsafeDecodeVisits(pfid) ==
  IF \E i \in 1 .. 32 : decodeCharThrows(pfid[i]) THEN <<>>
  ELSE cursorVisits(WriteWidths, 1, 0)

\* byte 3 built with p5 & 0x03 in place of p5 & 0x07
decodePartition_NarrowMask(partitionStr) ==
  IF Len(partitionStr) # 6
  THEN FailWith("invalid_partition", Str(partitionStr))
  ELSE IF \E i \in 1 .. 6 : decodeCharThrows(partitionStr[i])
  THEN FailWith("invalid_partition", Str(partitionStr))
  ELSE LET p1 == decodeChar(partitionStr[1])
           p2 == decodeChar(partitionStr[2])
           p3 == decodeChar(partitionStr[3])
           p4 == decodeChar(partitionStr[4])
           p5 == decodeChar(partitionStr[5])
           p6 == decodeChar(partitionStr[6])
           buffer ==
             << ToUint8(Or(Or(Shl(0, 6), Shl(p1, 1)), Sar(p2, 4))),
                ToUint8(Or(Shl(And(p2, 15), 4), Sar(p3, 1))),
                ToUint8(Or(Or(Shl(And(p3, 1), 7), Shl(p4, 2)), Sar(p5, 3))),
                ToUint8(Or(Shl(And(p5, 3), 5), Sar(p6, 0))) >>
           partition == And(ToInt32(ReadUInt32BE(buffer, 0)), 1073741823)
       IN Ok(Num(partition))

\* decodePartition(partitionStr), for a string argument
decodePartition(partitionStr) ==
  IF Len(partitionStr) # 6
  THEN FailWith("invalid_partition", Str(partitionStr))
  ELSE IF \E i \in 1 .. 6 : decodeCharThrows(partitionStr[i])
  THEN FailWith("invalid_partition", Str(partitionStr))
  ELSE LET p1 == decodeChar(partitionStr[1])
           p2 == decodeChar(partitionStr[2])
           p3 == decodeChar(partitionStr[3])
           p4 == decodeChar(partitionStr[4])
           p5 == decodeChar(partitionStr[5])
           p6 == decodeChar(partitionStr[6])
           buffer ==
             << ToUint8(Or(Or(Shl(0, 6), Shl(p1, 1)), Sar(p2, 4))),
                ToUint8(Or(Shl(And(p2, 15), 4), Sar(p3, 1))),
                ToUint8(Or(Or(Shl(And(p3, 1), 7), Shl(p4, 2)), Sar(p5, 3))),
                ToUint8(Or(Shl(And(p5, 7), 5), Sar(p6, 0))) >>
           partition == And(ToInt32(ReadUInt32BE(buffer, 0)), 1073741823)
       IN Ok(Num(partition))

(***************************************************************************)
(* The exported operations.  What a call reads from its environment is     *)
(* passed in: now is the reading of Date.now(), random the bytes           *)
(* randomBytes(10) returns, random4 the bytes randomBytes(4) returns and   *)
(* alloc the previous content of the memory Buffer.allocUnsafe hands out.  *)
(***************************************************************************)
zero == Returns(Str([i \in 1 .. 32 |-> 48]))

\* byte 0 written only when the timestamp reaches 2^40, as if the memory of
\* allocUnsafe were zeroed
generateBinaryWithTimestamp_SkipsZeroBytes(partition, timestamp, env) ==
  IF ~ isValidPartition(partition) THEN Throws(PlainError("Invalid partition: "))
  ELSE IF ~ isValidTimestamp(timestamp) THEN Throws(PlainError("Invalid timestamp: "))
  ELSE LET p == UInt32BEBytes(partition)
       IN Returns(Buf(
            [env.alloc EXCEPT
               ![1] = IF FloorDivPow2(timestamp, 40) = 0 THEN @
                      ELSE ToUint8(And(FloorDivPow2(timestamp, 40), 255)),
               ![2] = ToUint8(And(FloorDivPow2(timestamp, 32), 255)),
               ![3] = ToUint8(And(Sar(ToInt32(timestamp), 24), 255)),
               ![4] = ToUint8(And(Sar(ToInt32(timestamp), 16), 255)),
               ![5] = ToUint8(And(Sar(ToInt32(timestamp), 8), 255)),
               ![6] = ToUint8(And(ToInt32(timestamp), 255)),
               ![7] = p[1], ![8] = p[2], ![9] = p[3], ![10] = p[4],
               ![11] = env.random[1], ![12] = env.random[2], ![13] = env.random[3],
               ![14] = env.random[4], ![15] = env.random[5], ![16] = env.random[6],
               ![17] = env.random[7], ![18] = env.random[8], ![19] = env.random[9],
               ![20] = env.random[10]]))

\* without randomBytes(10).copy(buffer, 10): bytes 10-19 keep what the memory held
generateBinaryWithTimestamp_NoRandomCopy(partition, timestamp, env) ==
  IF ~ isValidPartition(partition) THEN Throws(PlainError("Invalid partition: "))
  ELSE IF ~ isValidTimestamp(timestamp) THEN Throws(PlainError("Invalid timestamp: "))
  ELSE LET p == UInt32BEBytes(partition)
       IN Returns(Buf(
            [env.alloc EXCEPT
               ![1] = ToUint8(And(FloorDivPow2(timestamp, 40), 255)),
               ![2] = ToUint8(And(FloorDivPow2(timestamp, 32), 255)),
               ![3] = ToUint8(And(Sar(ToInt32(timestamp), 24), 255)),
               ![4] = ToUint8(And(Sar(ToInt32(timestamp), 16), 255)),
               ![5] = ToUint8(And(Sar(ToInt32(timestamp), 8), 255)),
               ![6] = ToUint8(And(ToInt32(timestamp), 255)),
               ![7] = p[1], ![8] = p[2], ![9] = p[3], ![10] = p[4]]))

generateBinaryWithTimestamp(partition, timestamp, env) ==
  IF ~ isValidPartition(partition) THEN Throws(PlainError("Invalid partition: "))
  ELSE IF ~ isValidTimestamp(timestamp) THEN Throws(PlainError("Invalid timestamp: "))
  ELSE LET p == UInt32BEBytes(partition)
       IN Returns(Buf(
            [env.alloc EXCEPT
               ![1] = ToUint8(And(FloorDivPow2(timestamp, 40), 255)),
               ![2] = ToUint8(And(FloorDivPow2(timestamp, 32), 255)),
               ![3] = ToUint8(And(Sar(ToInt32(timestamp), 24), 255)),
               ![4] = ToUint8(And(Sar(ToInt32(timestamp), 16), 255)),
               ![5] = ToUint8(And(Sar(ToInt32(timestamp), 8), 255)),
               ![6] = ToUint8(And(ToInt32(timestamp), 255)),
               ![7] = p[1], ![8] = p[2], ![9] = p[3], ![10] = p[4],
               ![11] = env.random[1], ![12] = env.random[2], ![13] = env.random[3],
               ![14] = env.random[4], ![15] = env.random[5], ![16] = env.random[6],
               ![17] = env.random[7], ![18] = env.random[8], ![19] = env.random[9],
               ![20] = env.random[10]]))

generateBinary(partition, env) ==
  IF ~ isValidPartition(partition) THEN Throws(PlainError("Invalid partition: "))
  ELSE generateBinaryWithTimestamp(partition, env.now, env)

generate(partition, env) ==
  IF ~ isValidPartition(partition) THEN Throws(PlainError("Invalid partition: "))
  ELSE LET binary == generateBinary(partition, env)
       IN IF binary.tag = "throw" THEN binary
          ELSE Returns(Str(unsafeEncode(binary.value.data)))

generateWithTimestamp(partition, timestamp, env) ==
  IF ~ isValidPartition(partition) THEN Throws(PlainError("Invalid partition: "))
  ELSE IF ~ isValidTimestamp(timestamp) THEN Throws(PlainError("Invalid timestamp: "))
  ELSE LET binary == generateBinaryWithTimestamp(partition, timestamp, env)
       IN IF binary.tag = "throw" THEN binary
          ELSE Returns(Str(unsafeEncode(binary.value.data)))

\* generateWithTimestamp(123_456_789, 1_234_567_890_000)
generateExample(env) ==
  generateWithTimestamp(Num(123456789), JsNum(73585, 16450640), env)

\* masks one bit too wide: buffer[0] & 0x7f and readUInt32BE(0) & 0x7fffffff
generatePartition_WideMask(env) ==
  LET buffer == [env.random4 EXCEPT ![1] = ToUint8(And(@, 127))]
  IN Returns(Num(And(ToInt32(ReadUInt32BE(buffer, 0)), 2147483647)))

generatePartition(env) ==
  LET buffer == [env.random4 EXCEPT ![1] = ToUint8(And(@, 63))]
  IN Returns(Num(And(ToInt32(ReadUInt32BE(buffer, 0)), 1073741823)))

isPfid(string) ==
  IF string.kind # "string" THEN FALSE
  ELSE IF Len(string.data) # 32 THEN FALSE
  ELSE IF string.data[1] < 48 \/ string.data[1] > 55 THEN FALSE
  ELSE \* /^[0-7][0-9abcdefghjkmnpqrstvwxyz]{31}$/
       /\ string.data[1] \in 48 .. 55
       /\ \A i \in 2 .. 32 : string.data[i] \in PATTERN_CLASS

encode(binary) ==
  IF binary.kind # "buffer" \/ Len(binary.data) # 20
  THEN FailWith("invalid_binary", binary)
  ELSE LET encoded == unsafeEncode(binary.data)
       IN IF isPfid(Str(encoded)) THEN Ok(Str(encoded))
          ELSE FailWith("invalid_binary", binary)

decode(pfid) ==
  IF pfid.kind # "string" \/ Len(pfid.data) # 32
  THEN FailWith("invalid_pfid", pfid)
  ELSE IF pfid.data[1] < 48 \/ pfid.data[1] > 55
  THEN FailWith("invalid_pfid", pfid)
  ELSE LET binary == unsafeDecode(pfid.data)
       IN IF binary.tag = "throw" THEN FailWith("invalid_pfid", pfid)
          ELSE Ok(binary.value)

\* the partition taken from characters 9-14
extractPartition_Shifted(pfid) ==
  IF ~ isPfid(pfid) THEN FailWith("invalid_pfid", pfid)
  ELSE LET partitionStr == SubSeq(pfid.data, 10, 15)
           result == decodePartition(partitionStr)
       IN IF result.tag = "ok" THEN result
          ELSE FailWith("invalid_pfid", pfid)

extractPartition(pfid) ==
  IF ~ isPfid(pfid) THEN FailWith("invalid_pfid", pfid)
  ELSE LET partitionStr == SubSeq(pfid.data, 11, 16)
           result == decodePartition(partitionStr)
       IN IF result.tag = "ok" THEN result
          ELSE FailWith("invalid_pfid", pfid)

extractPartitionOrThrow(pfid) ==
  LET result == extractPartition(pfid)
  IN IF result.tag = "ok" THEN Returns(result.value)
     ELSE IF result.tag = "fail" THEN Throws(result.error)
     ELSE result

generateRelated(existingPfid, env) ==
  LET partition == extractPartitionOrThrow(existingPfid)
  IN IF partition.tag = "throw" THEN partition
     ELSE generate(partition.value, env)

generateRoot(env) == generate(generatePartition(env).value, env)

(***************************************************************************)
(* The Elixir port, module Pfid.  A binary is a sequence of bytes; a       *)
(* string is the binary of its UTF-8 bytes.  An outcome {:ok, v} is        *)
(* Ok(v), {:error, %PfidError{}} is Fail(e), a raised exception Throws(e). *)
(***************************************************************************)
\* the UTF-8 bytes of one code unit below the surrogates
Utf8Unit(c) ==
  IF c < 128 THEN <<c>>
  ELSE IF c < 2048 THEN <<192 + (c \div 64), 128 + (c % 64)>>
  ELSE <<224 + (c \div 4096), 128 + ((c \div 64) % 64), 128 + (c % 64)>>

RECURSIVE Utf8(_)
\* the UTF-8 bytes of a string
Utf8(s) == IF s = <<>> THEN <<>> ELSE Utf8Unit(Head(s)) \o Utf8(Tail(s))

\* is_binary(value)
is_binary(value) == value.kind \in {"string", "buffer"}

\* the bytes of a value that is a binary
BinaryOf(value) == IF value.kind = "string" THEN Utf8(value.data) ELSE value.data

\* the error tuple {:error, PfidError.make(code, problem: problem)}
Pfid_error(code) ==
  Fail([name |-> "PfidError", code |-> code, message |-> MessagePrefix(code)])

\* e/1 with the letters in uppercase
Pfid_e_Upper(value) ==
  LET c == << 48, 49, 50, 51, 52, 53, 54, 55, 56, 57, 97, 98, 99, 100, 101, 102, 103, 104, 106, 107, 109, 110, 112, 113, 114, 115, 116, 118, 119, 120, 121, 122 >>[value + 1]
  IN IF c >= 97 THEN c - 32 ELSE c

\* the clauses of e/1
Pfid_e(value) ==
  << 48, 49, 50, 51, 52, 53, 54, 55, 56, 57, 97, 98, 99, 100, 101, 102, 103, 104, 106, 107, 109, 110, 112, 113, 114, 115, 116, 118, 119, 120, 121, 122 >>[value + 1]

\* the clauses of d/1 that return; every other byte hits d(_), which throws
Pfid_d_map ==
  ( 48 :>  0) @@ ( 49 :>  1) @@ ( 50 :>  2) @@ ( 51 :>  3) @@
  ( 52 :>  4) @@ ( 53 :>  5) @@ ( 54 :>  6) @@ ( 55 :>  7) @@
  ( 56 :>  8) @@ ( 57 :>  9) @@ ( 97 :> 10) @@ ( 98 :> 11) @@
  ( 99 :> 12) @@ (100 :> 13) @@ (101 :> 14) @@ (102 :> 15) @@
  (103 :> 16) @@ (104 :> 17) @@ (106 :> 18) @@ (107 :> 19) @@
  (109 :> 20) @@ (110 :> 21) @@ (112 :> 22) @@ (113 :> 23) @@
  (114 :> 24) @@ (115 :> 25) @@ (116 :> 26) @@ (118 :> 27) @@
  (119 :> 28) @@ (120 :> 29) @@ (121 :> 30) @@ (122 :> 31)

Pfid_d_throws(byte) == byte \notin DOMAIN Pfid_d_map

Pfid_d(byte) == Pfid_d_map[byte]

\* the sizes of the segments of the 160-bit pattern: t1::3, t2..t10::5, 0::2,
\* p1..p6::5, r1..r16::5
Pfid_segments ==
  <<3>> \o [i \in 1 .. 9 |-> 5] \o <<2>> \o [i \in 1 .. 6 |-> 5] \o [i \in 1 .. 16 |-> 5]

\* the bits of a binary, most significant bit of the first byte first
BitsOfBinary(bytes) ==
  [n \in 1 .. 8 * Len(bytes) |-> (bytes[((n - 1) \div 8) + 1] \div Pow2(7 - ((n - 1) % 8))) % 2]

RECURSIVE SegmentValue(_, _, _)
\* the unsigned integer a segment of `size` bits matches, `skip` bits in
SegmentValue(bits, skip, size) ==
  IF size = 0 THEN 0
  ELSE 2 * SegmentValue(bits, skip, size - 1) + bits[skip + size]

RECURSIVE SegmentStart(_)
\* the number of bits before the k-th segment of the pattern
SegmentStart(k) == IF k = 1 THEN 0 ELSE SegmentStart(k - 1) + Pfid_segments[k - 1]

\* value::size when a binary is built: the low `size` bits, high bit first
SegmentBits(value, size) == [n \in 1 .. size |-> (value \div Pow2(size - n)) % 2]

RECURSIVE ConcatSegments(_, _)
\* the bits of <<v1::s1, v2::s2, ...>> from the k-th segment on
ConcatSegments(values, k) ==
  IF k > Len(values) THEN <<>>
  ELSE SegmentBits(values[k], Pfid_segments[k]) \o ConcatSegments(values, k + 1)

\* the bytes of a bitstring whose size is a multiple of 8
BinaryOfBits(bits) ==
  [i \in 1 .. Len(bits) \div 8 |-> SegmentValue(bits, 8 * (i - 1), 8)]

\* is_pfid?(string): String.match? against ~r/^[0-7][0-9abcdefghjkmnpqrstvwxyz]{31}$/,
\* where $ also matches before a newline that ends the subject
is_pfid(string) ==
  IF ~ is_binary(string) THEN FALSE
  ELSE LET bytes == BinaryOf(string)
           subject == IF Len(bytes) = 33 /\ bytes[33] = 10 THEN SubSeq(bytes, 1, 32)
                      ELSE bytes
       IN /\ Len(subject) = 32
          /\ subject[1] \in 48 .. 55
          /\ \A i \in 2 .. 32 :
               subject[i] \in (48 .. 57) \cup ((97 .. 122) \ {105, 108, 111, 117})

\* unsafe_encode(binary) on 20 bytes: the single clause wants the literal 0::2
\* after t10
unsafe_encode(bytes) ==
  LET bits == BitsOfBinary(bytes)
      field(k) == SegmentValue(bits, SegmentStart(k), Pfid_segments[k])
  IN IF field(11) # 0
     THEN Throws([name |-> "FunctionClauseError", code |-> "none", message |-> ""])
     ELSE Returns(Str([c \in 1 .. 32 |-> Pfid_e(field(IF c <= 10 THEN c ELSE c + 1))]))

\* Pfid.encode(binary)
Pfid_encode(binary) ==
  IF is_binary(binary) /\ Len(BinaryOf(binary)) = 20
  THEN LET encoded == unsafe_encode(BinaryOf(binary))
       IN IF encoded.tag = "throw" THEN encoded
          ELSE IF is_pfid(encoded.value) THEN Ok(encoded.value)
          ELSE Pfid_error("invalid_binary")
  ELSE Pfid_error("invalid_binary")

\* Pfid.decode(binary)
Pfid_decode(binary) ==
  IF ~ is_binary(binary) THEN Pfid_error("invalid_pfid")
  ELSE LET bytes == BinaryOf(binary)
       IN IF Len(bytes) # 32 THEN Pfid_error("invalid_pfid")
          ELSE IF ~ (bytes[1] < 56) THEN Pfid_error("invalid_pfid")
          ELSE IF \E i \in 1 .. 32 : Pfid_d_throws(bytes[i]) THEN Pfid_error("invalid_pfid")
          ELSE LET values == [k \in 1 .. 33 |->
                                IF k <= 10 THEN Pfid_d(bytes[k])
                                ELSE IF k = 11 THEN 0
                                ELSE Pfid_d(bytes[k - 1])]
               IN Ok(Buf(BinaryOfBits(ConcatSegments(values, 1))))

\* Pfid.decode_partition(binary)
decode_partition(bytes) ==
  IF Len(bytes) # 6 THEN Pfid_error("invalid_partition")
  ELSE IF \E i \in 1 .. 6 : Pfid_d_throws(bytes[i]) THEN Pfid_error("invalid_partition")
  ELSE LET d(i) == Pfid_d(bytes[i])
       IN Ok(Num(((((d(1) * 32 + d(2)) * 32 + d(3)) * 32 + d(4)) * 32 + d(5)) * 32 + d(6)))

\* Pfid.extract_partition(string)
extract_partition(string) ==
  IF ~ is_binary(string) THEN Pfid_error("invalid_pfid")
  ELSE LET bytes == BinaryOf(string)
       IN IF Len(bytes) # 32 THEN Pfid_error("invalid_pfid")
          ELSE IF is_pfid(string) THEN decode_partition(SubSeq(bytes, 11, 16))
          ELSE Pfid_error("invalid_pfid")

(***************************************************************************)
(* Inputs of the calls.                                                    *)
(***************************************************************************)
\* the k-th pattern of 10 random bytes
RandomPattern(k) ==
  [i \in 1 .. 10 |-> IF k = 0 THEN 0 ELSE IF k = 1 THEN 255 ELSE (k * 53 + i * 97) % 256]

Rands == { RandomPattern(k) : k \in 0 .. NumRand - 1 }

Rands4 == { <<0, 0, 0, 0>>, <<255, 255, 255, 255>>, <<192, 0, 0, 1>>,
            <<63, 255, 255, 255>>, <<64, 1, 2, 3>> }

Allocs == { [i \in 1 .. 20 |-> 0], [i \in 1 .. 20 |-> 255] }

\* readings of Date.now(): 1234567890000 and 1793491200000
Clock == { JsNum(73585, 16450640), JsNum(106900, 6809600) }

NoEnv == [now |-> Num(0), random |-> <<>>, random4 |-> <<>>, alloc |-> <<>>]

\* 0, 1, 2^24-1, 2^31-1, 2^31, 2^32-1, 2^32, 1234567890000, 2^40, 2^47, 2^48-1
ValidTimestamps ==
  { JsNum(0, 0), JsNum(0, 1), JsNum(0, Limb - 1), JsNum(127, Limb - 1),
    JsNum(128, 0), JsNum(255, Limb - 1), JsNum(256, 0), JsNum(73585, 16450640),
    JsNum(65536, 0), JsNum(8388608, 0), JsNum(Limb - 1, Limb - 1) }

\* -1, 2^48, 1.5
InvalidTimestamps == { Num(-1), JsNum(Limb, 0), JsNumHalf(0, 1) }

\* 0, 1, 123456789, 2^29, 2^30-1
ValidPartitions ==
  { Num(0), Num(1), Num(123456789), JsNum(32, 0), JsNum(63, Limb - 1) }

\* -1, 2^30, 1.5
InvalidPartitions == { Num(-1), JsNum(64, 0), JsNumHalf(0, 1) }

TestTimestamps == ValidTimestamps \cup InvalidTimestamps
TestPartitions == ValidPartitions \cup InvalidPartitions

ZeroText == [i \in 1 .. 32 |-> 48]
\* "01an4z07byd9df0k79ka1307sr9x4mv3"
ReadmeText == << 48, 49, 97, 110, 52, 122, 48,
     55, 98, 121, 100, 57, 100, 102, 48, 107, 55, 57, 107, 97, 49, 51, 48, 55, 115, 114, 57, 120, 52, 109, 118, 51 >>
\* "7zzzzzzzzzzzzzzzzzzzzzzzzzzzzzzz"
MaxText == [i \in 1 .. 32 |-> IF i = 1 THEN 55 ELSE 122]
\* "invalid"
InvalidWord == << 105, 110, 118, 97, 108, 105, 100 >>

BaseTexts == { ReadmeText, MaxText }

\* A K Z (uppercase), I (uppercase of an excluded letter), i l o u, 7 8 9 z,
\* - / : ` { and newline, the Kelvin sign U+212A, U+0130
SubstChars ==
  { 65, 75, 90, 73, 105, 108, 111, 117, 55, 56, 57, 122,
    45, 47, 58, 96, 123, 10, 8490, 304 }

Upper(s) == [i \in 1 .. Len(s) |-> IF s[i] \in 97 .. 122 THEN s[i] - 32 ELSE s[i]]

Lower(s) == [i \in 1 .. Len(s) |-> IF s[i] \in 65 .. 90 THEN s[i] + 32 ELSE s[i]]

Substituted(base) == { [base EXCEPT ![i] = c] : i \in 1 .. 32, c \in SubstChars }

WrongLength(base) ==
  { SubSeq(base, 1, 32 - d) : d \in 1 .. MaxLenDelta }
    \cup { base \o [i \in 1 .. d |-> 48] : d \in 1 .. MaxLenDelta }
    \cup { base \o <<10>> }

TestStrings ==
  { ZeroText, <<>>, InvalidWord }
    \cup BaseTexts
    \cup { Upper(b) : b \in BaseTexts }
    \cup UNION { Substituted(b) : b \in BaseTexts }
    \cup UNION { WrongLength(b) : b \in BaseTexts }

\* the example binary: timestamp 1234567890000, partition 123456789, randomness 0
ExampleBinary ==
  << 1, 31, 113, 251, 4, 80, 7, 91, 205, 21, 0, 0, 0, 0, 0, 0, 0, 0, 0, 0 >>

\* the buffer with only bit n set (n counted from the most significant bit of byte 0)
OneBit(n) == [i \in 1 .. 20 |-> IF i = (n \div 8) + 1 THEN Pow2(7 - (n % 8)) ELSE 0]

\* the buffer with only bit n clear
AllButOneBit(n) == [i \in 1 .. 20 |-> 255 - OneBit(n)[i]]

TestBinaries ==
  { ExampleBinary, [i \in 1 .. 20 |-> 0], [i \in 1 .. 20 |-> 255],
    [i \in 1 .. 20 |-> (i * 13 + 7) % 256] }
    \cup { [ExampleBinary EXCEPT ![7] = 64 * k + (@ % 64)] : k \in 1 .. 3 }
    \cup { OneBit(n) : n \in 0 .. 159 }
    \cup { AllButOneBit(n) : n \in 0 .. 159 }

WrongLengthBinaries ==
  { <<>>, <<1, 2, 3>> }
    \cup { [i \in 1 .. 20 - d |-> 0] : d \in 1 .. MaxLenDelta }
    \cup { [i \in 1 .. 20 + d |-> 0] : d \in 1 .. MaxLenDelta }

\* values that are neither a string nor a Buffer
Oddities ==
  { Num(123), Other("null"), Other("undefined"), Other("object"),
    Other("bigint"), Other("circular") }

\* arguments tried on the operations that expect a string
TextInputs ==
  { Str(s) : s \in TestStrings } \cup Oddities \cup { Buf(<<1, 2, 3>>), Buf(ExampleBinary) }

\* arguments tried on encode
BinaryInputs ==
  { Buf(b) : b \in TestBinaries \cup WrongLengthBinaries }
    \cup Oddities \cup { Str(InvalidWord), Str(ReadmeText) }

(***************************************************************************)
(* The state: the calls of the current session, oldest first.  A session   *)
(* starts with a generator or with a call on a fresh input; each later     *)
(* call is a conversion or a check of the value the call before it         *)
(* returned.  Every call runs to completion before the next one starts     *)
(* (the library is synchronous).                                           *)
(***************************************************************************)
VARIABLES hist

vars == <<hist>>

Init == hist = <<>>

Last == hist[Len(hist)]

\* the value the last call handed back, when it is of the given kind
Held(kind) ==
  IF /\ hist # <<>>
     /\ Last.result.tag \in {"ok", "return"}
     /\ Last.result.value.kind = kind
  THEN { Last.result.value }
  ELSE {}

\* the arguments a call can take now
Arg(kind, fresh) == IF hist = <<>> THEN fresh ELSE Held(kind)

\* the partitions a generator can be called with now: any test value in a new
\* session, the partition of the first call when that call was the same
\* generator and returned an id, none otherwise
PartitionArg(op) ==
  IF hist = <<>> THEN TestPartitions
  ELSE IF Len(hist) = 1 /\ hist[1].op = op /\ hist[1].result.tag = "return"
  THEN { hist[1].args[1] }
  ELSE {}

\* the timestamps generateWithTimestamp can be called with now: any test
\* value in a new session; in a second call the timestamp of the first call
\* again, the smallest and the largest
TimestampArg ==
  IF hist = <<>> THEN TestTimestamps
  ELSE IF Len(hist[1].args) = 2
  THEN { hist[1].args[2], JsNum(0, 0), JsNum(Limb - 1, Limb - 1) }
  ELSE {}

\* what Buffer.allocUnsafe(20) hands out now: any test content in a new
\* session, afterwards the memory as the first call left it
AllocArg ==
  IF hist = <<>> THEN Allocs
  ELSE IF \/ hist[1].op \notin {"generate", "generateWithTimestamp"}
          \/ hist[1].result.tag # "return"
  THEN {}
  ELSE { generateBinaryWithTimestamp(
           hist[1].args[1],
           IF Len(hist[1].args) = 2 THEN hist[1].args[2] ELSE hist[1].env.now,
           hist[1].env).value.data }

Call(op, args, env, result) ==
  /\ Len(hist) < MaxCalls
  /\ hist' = Append(hist, [op |-> op, args |-> args, env |-> env, result |-> result])

Zero ==
  /\ hist = <<>>
  /\ Call("zero", <<>>, NoEnv, zero)

GenerateBinaryWithTimestamp ==
  /\ hist = <<>>
  /\ \E p \in TestPartitions, t \in TestTimestamps, r \in Rands, a \in Allocs :
       LET env == [NoEnv EXCEPT !.random = r, !.alloc = a]
       IN Call("generateBinaryWithTimestamp", <<p, t>>, env,
               generateBinaryWithTimestamp(p, t, env))

GenerateWithTimestamp ==
  /\ \E p \in PartitionArg("generateWithTimestamp"),
        t \in TimestampArg,
        r \in Rands, a \in AllocArg :
       LET env == [NoEnv EXCEPT !.random = r, !.alloc = a]
       IN Call("generateWithTimestamp", <<p, t>>, env, generateWithTimestamp(p, t, env))

GenerateBinary ==
  /\ hist = <<>>
  /\ \E p \in TestPartitions, n \in Clock, r \in Rands, a \in Allocs :
       LET env == [NoEnv EXCEPT !.now = n, !.random = r, !.alloc = a]
       IN Call("generateBinary", <<p>>, env, generateBinary(p, env))

Generate ==
  /\ \E p \in PartitionArg("generate"), n \in Clock, r \in Rands, a \in AllocArg :
       LET env == [NoEnv EXCEPT !.now = n, !.random = r, !.alloc = a]
       IN Call("generate", <<p>>, env, generate(p, env))

GenerateExample ==
  /\ hist = <<>>
  /\ \E r \in Rands, a \in Allocs :
       LET env == [NoEnv EXCEPT !.random = r, !.alloc = a]
       IN Call("generateExample", <<>>, env, generateExample(env))

GenerateRelated ==
  /\ hist = <<>>
  /\ \E e \in TextInputs, n \in Clock, r \in Rands, a \in Allocs :
       LET env == [NoEnv EXCEPT !.now = n, !.random = r, !.alloc = a]
       IN Call("generateRelated", <<e>>, env, generateRelated(e, env))

GenerateRoot ==
  /\ hist = <<>>
  /\ \E n \in Clock, r \in Rands, r4 \in Rands4, a \in Allocs :
       LET env == [now |-> n, random |-> r, random4 |-> r4, alloc |-> a]
       IN Call("generateRoot", <<>>, env, generateRoot(env))

GeneratePartition ==
  /\ hist = <<>>
  /\ \E r4 \in Rands4 :
       LET env == [NoEnv EXCEPT !.random4 = r4]
       IN Call("generatePartition", <<>>, env, generatePartition(env))

IsPfid ==
  \E x \in Arg("string", TextInputs) :
    Call("isPfid", <<x>>, NoEnv, Returns(Bool(isPfid(x))))

Encode ==
  \E x \in Arg("buffer", BinaryInputs) :
    Call("encode", <<x>>, NoEnv, encode(x))

Decode ==
  \E x \in Arg("string", TextInputs) :
    Call("decode", <<x>>, NoEnv, decode(x))

ExtractPartition ==
  \E x \in Arg("string", TextInputs) :
    Call("extractPartition", <<x>>, NoEnv, extractPartition(x))

ExtractPartitionOrThrow ==
  \E x \in Arg("string", TextInputs) :
    Call("extractPartitionOrThrow", <<x>>, NoEnv, extractPartitionOrThrow(x))

\* the caller drops the results and starts a new session
NewSession ==
  /\ hist # <<>>
  /\ hist' = <<>>

Next ==
  \/ Zero
  \/ GenerateBinaryWithTimestamp
  \/ GenerateWithTimestamp
  \/ GenerateBinary
  \/ Generate
  \/ GenerateExample
  \/ GenerateRelated
  \/ GenerateRoot
  \/ GeneratePartition
  \/ IsPfid
  \/ Encode
  \/ Decode
  \/ ExtractPartition
  \/ ExtractPartitionOrThrow
  \/ NewSession

Spec == Init /\ [][Next]_vars

(***************************************************************************)
(* Vocabulary of the properties.                                           *)
(***************************************************************************)
\* the 32 symbols 0123456789abcdefghjkmnpqrstvwxyz
Alphabet == { ENCODE_CHARS[i] : i \in 1 .. 32 }

\* a symbol of the alphabet, or the uppercase form of one of its letters
InAlphabetAnyCase(c) == c \in Alphabet \/ (c \in 65 .. 90 /\ c + 32 \in Alphabet)

\* a string of 32 characters of the alphabet, the first one in 0-7
WellFormedLower(x) ==
  /\ x.kind = "string"
  /\ Len(x.data) = 32
  /\ x.data[1] \in 48 .. 55
  /\ \A i \in 1 .. 32 : x.data[i] \in Alphabet

\* the same, with letters in either case
WellFormedAnyCase(x) ==
  /\ x.kind = "string"
  /\ Len(x.data) = 32
  /\ x.data[1] \in 48 .. 55
  /\ \A i \in 1 .. 32 : InAlphabetAnyCase(x.data[i])

\* the i-th call of the session is a call of op
IsCall(i, op) == i <= Len(hist) /\ hist[i].op = op

\* the first call packs a valid partition and a valid timestamp
PacksValid ==
  /\ IsCall(1, "generateBinaryWithTimestamp")
  /\ hist[1].args[1] \in ValidPartitions
  /\ hist[1].args[2] \in ValidTimestamps

\* the operations that hand back a text
TextProducers ==
  { "encode", "generate", "generateWithTimestamp", "generateExample",
    "generateRelated", "generateRoot" }

\* the six bytes of a 48-bit number, most significant first
BigEndian48(n) ==
  << n.data[1] \div 65536, (n.data[1] \div 256) % 256, n.data[1] % 256,
     n.data[2] \div 65536, (n.data[2] \div 256) % 256, n.data[2] % 256 >>

\* the four bytes of a number below 2^32, most significant first
BigEndian32(n) ==
  << n.data[1], n.data[2] \div 65536, (n.data[2] \div 256) % 256, n.data[2] % 256 >>

(***************************************************************************)
(* C1.  Binary round trip: packing a valid partition, a valid timestamp    *)
(* and 10 random bytes succeeds, encode of the packed buffer returns ok,   *)
(* and decode of that text returns ok with the very bytes that were        *)
(* packed.                                                                 *)
(***************************************************************************)
C1_BinaryRoundTrip ==
  PacksValid =>
    /\ hist[1].result.tag = "return"
    /\ IsCall(2, "encode") => hist[2].result.tag = "ok"
    /\ IsCall(2, "encode") /\ IsCall(3, "decode") =>
         hist[3].result = Ok(hist[1].result.value)

\* the largest partition and timestamp with all-ones randomness went through
\* pack, encode and decode
C1_Witness ==
  /\ PacksValid
  /\ hist[1].args = <<JsNum(63, Limb - 1), JsNum(Limb - 1, Limb - 1)>>
  /\ hist[1].env.random = RandomPattern(1)
  /\ IsCall(2, "encode")
  /\ IsCall(3, "decode")
  /\ hist[3].result.tag = "ok"

(***************************************************************************)
(* C2.  Text round trip: decode of a 32-character string over the          *)
(* alphabet in either letter case, first character in 0-7, returns ok, and *)
(* encode of the decoded buffer returns ok with the string in lowercase.   *)
(***************************************************************************)
C2_TextRoundTrip ==
  \A i \in 1 .. Len(hist) :
    hist[i].op = "decode" /\ WellFormedAnyCase(hist[i].args[1]) =>
      /\ hist[i].result.tag = "ok"
      /\ IsCall(i + 1, "encode") =>
           hist[i + 1].result = Ok(Str(Lower(hist[i].args[1].data)))

\* an id written in uppercase was decoded and encoded again
C2_Witness ==
  /\ IsCall(1, "decode")
  /\ hist[1].args[1] = Str(Upper(ReadmeText))
  /\ IsCall(2, "encode")
  /\ hist[2].result = Ok(Str(ReadmeText))

(***************************************************************************)
(* C3.  Partition consistency: extractPartition of the text encode makes   *)
(* of a packed buffer returns ok with the partition that was packed.       *)
(***************************************************************************)
C3_PartitionConsistency ==
  PacksValid /\ IsCall(2, "encode") /\ IsCall(3, "extractPartition") =>
    hist[3].result = Ok(hist[1].args[1])

\* the largest partition, 2^30 - 1, came back from extractPartition
C3_Witness ==
  /\ PacksValid
  /\ hist[1].args[1] = JsNum(63, Limb - 1)
  /\ hist[1].args[2] = JsNum(128, 0)
  /\ IsCall(2, "encode")
  /\ IsCall(3, "extractPartition")
  /\ hist[3].result.tag = "ok"

(***************************************************************************)
(* C4.  Structure of produced text: every text handed back by encode (ok)  *)
(* and by generate, generateWithTimestamp, generateExample,                *)
(* generateRelated and generateRoot has 32 characters of the lowercase     *)
(* alphabet, the first one in 0-7, and isPfid accepts it.                  *)
(***************************************************************************)
C4_ProducedTextIsValid ==
  \A i \in 1 .. Len(hist) :
    hist[i].op \in TextProducers /\ hist[i].result.tag \in {"ok", "return"} =>
      /\ WellFormedLower(hist[i].result.value)
      /\ isPfid(hist[i].result.value)
      /\ IsCall(i + 1, "isPfid") => hist[i + 1].result = Returns(Bool(TRUE))

\* isPfid was called on an id generateRoot made from a random partition with
\* its two high bits set
C4_Witness ==
  /\ IsCall(1, "generateRoot")
  /\ hist[1].env.random4 = <<255, 255, 255, 255>>
  /\ hist[1].result.tag = "return"
  /\ IsCall(2, "isPfid")
  /\ hist[2].result = Returns(Bool(TRUE))

(***************************************************************************)
(* C5.  Pack layout: for a valid partition p and timestamp t,              *)
(* generateBinaryWithTimestamp returns 20 bytes: bytes 0..5 are t as a     *)
(* 48-bit big-endian integer, bytes 6..9 are p as a 32-bit big-endian      *)
(* integer with the two high bits of byte 6 clear, bytes 10..19 are the    *)
(* random bytes drawn; nothing of the uninitialised allocation is left.    *)
(***************************************************************************)
C5_PackLayout ==
  PacksValid =>
    /\ hist[1].result.tag = "return"
    /\ hist[1].result.value.kind = "buffer"
    /\ Len(hist[1].result.value.data) = 20
    /\ SubSeq(hist[1].result.value.data, 1, 6) = BigEndian48(hist[1].args[2])
    /\ SubSeq(hist[1].result.value.data, 7, 10) = BigEndian32(hist[1].args[1])
    /\ hist[1].result.value.data[7] < 64
    /\ SubSeq(hist[1].result.value.data, 11, 20) = hist[1].env.random

\* a timestamp whose low 32 bits read as a negative number (2^32 - 1) was
\* packed into memory that held 0xff bytes, with zero randomness
C5_Witness ==
  /\ PacksValid
  /\ hist[1].args[2] = JsNum(255, Limb - 1)
  /\ hist[1].env.alloc = [i \in 1 .. 20 |-> 255]
  /\ hist[1].env.random = RandomPattern(0)
  /\ Len(hist) = 1
  /\ hist[1].result.tag = "return"

(***************************************************************************)
(* C6.  Validator completeness: isPfid returns true for every string of    *)
(* 32 characters over the alphabet compared case-insensitively whose first *)
(* character is in 0-7, an id written with uppercase letters included.     *)
(***************************************************************************)
C6_ValidatorCompleteness ==
  \A i \in 1 .. Len(hist) :
    hist[i].op = "isPfid" /\ WellFormedAnyCase(hist[i].args[1]) =>
      hist[i].result = Returns(Bool(TRUE))

(***************************************************************************)
(* C7.  Validator soundness: isPfid returns false for every value that is  *)
(* not a string, for the empty string, for every string whose length is    *)
(* not 32, for every string whose first character is not in 0-7 and for    *)
(* every string with a character outside the 32 symbols at any position.   *)
(***************************************************************************)
C7_ValidatorSoundness ==
  \A i \in 1 .. Len(hist) :
    hist[i].op = "isPfid" /\ ~ WellFormedLower(hist[i].args[1]) =>
      hist[i].result = Returns(Bool(FALSE))

\* isPfid was called on an id whose last character was replaced by 'u'
C7_Witness ==
  /\ IsCall(1, "isPfid")
  /\ hist[1].args[1] = Str([ReadmeText EXCEPT ![32] = 117])
  /\ hist[1].result = Returns(Bool(FALSE))

(***************************************************************************)
(* C8.  Decode acceptance: decode returns ok exactly for the strings of 32 *)
(* characters over the alphabet in either letter case whose first          *)
(* character is in 0-7; for every other input it returns a failure that    *)
(* carries a PfidError with code invalid_pfid, and no binary.              *)
(***************************************************************************)
C8_DecodeAcceptance ==
  \A i \in 1 .. Len(hist) :
    hist[i].op = "decode" =>
      IF WellFormedAnyCase(hist[i].args[1])
      THEN hist[i].result.tag = "ok"
      ELSE /\ hist[i].result.tag = "fail"
           /\ hist[i].result.error.name = "PfidError"
           /\ hist[i].result.error.code = "invalid_pfid"
           /\ hist[i].result.value = Undefined

(***************************************************************************)
(* C9.  Encode acceptance: encode returns ok for every buffer of exactly   *)
(* 20 bytes, and a failure that carries a PfidError with code              *)
(* invalid_binary for every other input.                                   *)
(***************************************************************************)
C9_EncodeAcceptance ==
  \A i \in 1 .. Len(hist) :
    hist[i].op = "encode" =>
      IF hist[i].args[1].kind = "buffer" /\ Len(hist[i].args[1].data) = 20
      THEN hist[i].result.tag = "ok"
      ELSE /\ hist[i].result.tag = "fail"
           /\ hist[i].result.error.name = "PfidError"
           /\ hist[i].result.error.code = "invalid_binary"

(***************************************************************************)
(* C10.  Lossless conversion: for every 20-byte buffer b that encode       *)
(* accepts, decode of the text returns ok with a buffer equal to b, the    *)
(* two high bits of byte 6 included.                                       *)
(***************************************************************************)
C10_Lossless ==
  \A i \in 1 .. Len(hist) :
    /\ hist[i].op = "encode"
    /\ hist[i].result.tag = "ok"
    /\ IsCall(i + 1, "decode")
    => hist[i + 1].result = Ok(hist[i].args[1])

\* bit n (0 is the most significant bit of byte 0) of a buffer's bytes
BitAt(bytes, n) == (bytes[(n \div 8) + 1] \div Pow2(7 - (n % 8))) % 2

\* the value of the five bits from bit `from` on; bits before bit 0 count as 0
FiveBits(bytes, from) ==
  LET b(n) == IF n < 0 THEN 0 ELSE BitAt(bytes, n)
  IN 16 * b(from) + 8 * b(from + 1) + 4 * b(from + 2) + 2 * b(from + 3) + b(from + 4)

\* the symbol of a 5-bit value in "0123456789abcdefghjkmnpqrstvwxyz"
SymbolOf(v) ==
  IF v < 10 THEN 48 + v
  ELSE IF v < 18 THEN 87 + v
  ELSE IF v < 20 THEN 88 + v
  ELSE IF v < 22 THEN 89 + v
  ELSE IF v < 27 THEN 90 + v
  ELSE 91 + v

(***************************************************************************)
(* C11 as stated.  Uniform 5-bit slicing: for every 20-byte buffer b that  *)
(* encode accepts, character i (0 <= i < 32) of the text is the symbol of  *)
(* bits 5i .. 5i+4 of b.                                                   *)
(***************************************************************************)
C11_UniformSlicing ==
  \A i \in 1 .. Len(hist) :
    hist[i].op = "encode" /\ hist[i].result.tag = "ok" =>
      \A c \in 0 .. 31 :
        hist[i].result.value.data[c + 1] = SymbolOf(FiveBits(hist[i].args[1].data, 5 * c))

(***************************************************************************)
(* C11 amended.  For every 20-byte buffer b that encode accepts, character *)
(* 0 of the text is the symbol of bits 0 .. 2 of b, character i for        *)
(* 1 <= i <= 9 is the symbol of bits 5i-2 .. 5i+2, character i for         *)
(* 10 <= i <= 31 is the symbol of bits 5i .. 5i+4, and bits 48 and 49 go   *)
(* into no character.                                                      *)
(***************************************************************************)
C11_TimestampShiftedSlicing ==
  \A i \in 1 .. Len(hist) :
    hist[i].op = "encode" /\ hist[i].result.tag = "ok" =>
      /\ Len(hist[i].result.value.data) = 32
      /\ \A c \in 0 .. 31 :
           hist[i].result.value.data[c + 1] =
             SymbolOf(FiveBits(hist[i].args[1].data, IF c < 10 THEN 5 * c - 2 ELSE 5 * c))
      /\ hist[i].result = encode(Buf([hist[i].args[1].data EXCEPT ![7] = @ % 64]))

\* encode accepted the buffer that has every bit set but bit 50
C11_Witness ==
  /\ IsCall(1, "encode")
  /\ hist[1].result.tag = "ok"
  /\ hist[1].args[1] = Buf(AllButOneBit(50))

\* an integer in [0, 2^30-1]
PartitionInRange(p) == p.kind = "number" /\ p.data[3] = 0 /\ p.data[1] \in 0 .. 63

\* an integer in [0, 2^48-1]
TimestampInRange(t) == t.kind = "number" /\ t.data[3] = 0 /\ t.data[1] \in 0 .. Limb - 1

\* the call returned an id: a text of 32 characters or a buffer of 20 bytes
ReturnedId(call) ==
  /\ call.result.tag = "return"
  /\ \/ call.result.value.kind = "string" /\ Len(call.result.value.data) = 32
     \/ call.result.value.kind = "buffer" /\ Len(call.result.value.data) = 20

\* the call threw and handed back nothing
ThrewNoId(call) == call.result.tag = "throw" /\ call.result.value = Undefined

(***************************************************************************)
(* C12.  Domain boundary rejection: generateWithTimestamp(p, t) and        *)
(* generateBinaryWithTimestamp(p, t) return an id exactly when p is an     *)
(* integer in [0, 2^30-1] and t is an integer in [0, 2^48-1], and throw    *)
(* without returning an id otherwise (p = -1, p = 2^30, t = -1, t = 2^48,  *)
(* a non-integer); generate(p) returns an id for p in range, 0 and 2^30-1  *)
(* included, and throws for p = -1 and p = 2^30.                           *)
(***************************************************************************)
C12_DomainBoundaryRejection ==
  \A i \in 1 .. Len(hist) :
    /\ hist[i].op \in {"generateWithTimestamp", "generateBinaryWithTimestamp"} =>
         IF PartitionInRange(hist[i].args[1]) /\ TimestampInRange(hist[i].args[2])
         THEN ReturnedId(hist[i])
         ELSE ThrewNoId(hist[i])
    /\ hist[i].op = "generate" =>
         IF PartitionInRange(hist[i].args[1])
         THEN ReturnedId(hist[i])
         ELSE ThrewNoId(hist[i])

\* generateWithTimestamp was called with partition 2^30 and the largest
\* timestamp, and threw
C12_Witness ==
  /\ IsCall(1, "generateWithTimestamp")
  /\ hist[1].args = <<JsNum(64, 0), JsNum(Limb - 1, Limb - 1)>>
  /\ hist[1].result.tag = "throw"

\* bytes 6..9 of a 20-byte buffer as a 32-bit big-endian integer, masked to
\* its low 30 bits
Bytes6To9Low30(bytes) ==
  Num((bytes[7] % 64) * 16777216 + bytes[8] * 65536 + bytes[9] * 256 + bytes[10])

(***************************************************************************)
(* C13.  Equivalence of the two partition paths: for every string s that   *)
(* isPfid accepts, extractPartition(s) returns ok with the value of bytes  *)
(* 6..9 of the buffer decode(s) returns, read as a 32-bit big-endian       *)
(* integer and masked to its low 30 bits.                                  *)
(***************************************************************************)
C13_PartitionPathsAgree ==
  \A i \in 1 .. Len(hist) :
    /\ hist[i].op = "extractPartition" /\ isPfid(hist[i].args[1]) =>
         LET decoded == decode(hist[i].args[1])
         IN /\ decoded.tag = "ok"
            /\ hist[i].result = Ok(Bytes6To9Low30(decoded.value.data))
    /\ hist[i].op = "decode" /\ isPfid(hist[i].args[1]) =>
         /\ hist[i].result.tag = "ok"
         /\ extractPartition(hist[i].args[1]) = Ok(Bytes6To9Low30(hist[i].result.value.data))

\* extractPartition returned the largest partition, 2^30-1, for the text
\* "7zzzzzzzzzzzzzzzzzzzzzzzzzzzzzzz"
C13_Witness ==
  /\ IsCall(1, "extractPartition")
  /\ hist[1].args[1] = Str(MaxText)
  /\ hist[1].result = Ok(JsNum(63, Limb - 1))

\* the result is a failure that carries a PfidError with the given code and
\* no value
FailsWith(result, code) ==
  /\ result.tag = "fail"
  /\ result.value = Undefined
  /\ result.error.name = "PfidError"
  /\ result.error.code = code

(***************************************************************************)
(* C14.  extractPartition failure: extractPartition returns ok exactly     *)
(* when isPfid accepts its input; for every other input (wrong length,     *)
(* disallowed first character, a character outside the alphabet, a         *)
(* non-string) it returns a failure with code invalid_pfid, never          *)
(* invalid_partition, and no partition value.                              *)
(***************************************************************************)
C14_ExtractPartitionFailure ==
  \A i \in 1 .. Len(hist) :
    hist[i].op = "extractPartition" =>
      IF isPfid(hist[i].args[1])
      THEN hist[i].result.tag = "ok" /\ hist[i].result.value.kind = "number"
      ELSE FailsWith(hist[i].result, "invalid_pfid")

(***************************************************************************)
(* C15.  Throw-style wrapper: for every input s, extractPartitionOrThrow   *)
(* either returns v, and then extractPartition(s) is ok with value v, or   *)
(* throws the PfidError with code invalid_pfid that the failure returned   *)
(* by extractPartition(s) carries; it has no other outcome.                *)
(***************************************************************************)
C15_ThrowStyleWrapper ==
  \A i \in 1 .. Len(hist) :
    hist[i].op = "extractPartitionOrThrow" =>
      LET result == extractPartition(hist[i].args[1])
      IN \/ /\ hist[i].result.tag = "return"
            /\ result.tag = "ok"
            /\ hist[i].result.value = result.value
         \/ /\ hist[i].result.tag = "throw"
            /\ FailsWith(result, "invalid_pfid")
            /\ hist[i].result.error = result.error

(***************************************************************************)
(* C16.  Never raises: for every input of every kind, isPfid returns a     *)
(* boolean, and encode, decode and extractPartition return a tagged        *)
(* result, ok with a value or a failure with a PfidError; none of the four *)
(* throws.                                                                 *)
(***************************************************************************)
C16_NeverRaises ==
  \A i \in 1 .. Len(hist) :
    /\ hist[i].op = "isPfid" =>
         hist[i].result.tag = "return" /\ hist[i].result.value.kind = "boolean"
    /\ hist[i].op \in {"encode", "decode", "extractPartition"} =>
         \/ hist[i].result.tag = "ok" /\ hist[i].result.value # Undefined
         \/ hist[i].result.tag = "fail" /\ hist[i].result.error.name = "PfidError"

\* the call threw a PfidError whose message starts with the given words
ThrowsPfidError(call, words) ==
  /\ call.result.tag = "throw"
  /\ call.result.error.name = "PfidError"
  /\ call.result.error.message = words

(***************************************************************************)
(* C17.  Documented throw-style API: encode, decode and extractPartition   *)
(* return the bare value on success (a string, a 20-byte buffer, a number) *)
(* and throw a PfidError on invalid input: encode of a 3-byte buffer or of *)
(* a non-buffer throws a PfidError with an "invalid binary" message,       *)
(* decode and extractPartition of "invalid" throw a PfidError with an      *)
(* "invalid PFID" message.                                                 *)
(***************************************************************************)
C17_DocumentedThrowStyle ==
  \A i \in 1 .. Len(hist) :
    /\ hist[i].op \in {"encode", "decode", "extractPartition"} =>
         \/ /\ hist[i].result.tag = "return"
            /\ hist[i].result.value.kind \in {"string", "buffer", "number"}
         \/ hist[i].result.tag = "throw" /\ hist[i].result.error.name = "PfidError"
    /\ /\ hist[i].op = "encode"
       /\ hist[i].args[1] = Buf(<<1, 2, 3>>) \/ hist[i].args[1].kind # "buffer"
       => ThrowsPfidError(hist[i], "invalid binary PFID: ")
    /\ /\ hist[i].op \in {"decode", "extractPartition"}
       /\ hist[i].args[1] = Str(InvalidWord)
       => ThrowsPfidError(hist[i], "invalid PFID: ")

\* a comes before b in the lexicographic order of sequences of numbers
SeqLess(a, b) ==
  \E k \in 1 .. Len(b) :
    /\ \A j \in 1 .. k - 1 : j <= Len(a) /\ a[j] = b[j]
    /\ k > Len(a) \/ a[k] < b[k]

\* a < b on integer number values
NumLess(a, b) ==
  \/ a.data[1] < b.data[1]
  \/ a.data[1] = b.data[1] /\ a.data[2] < b.data[2]

\* every valid triple of the test values, with its packed buffer and the text
\* encode gives for it
PackedTexts ==
  { LET env == [NoEnv EXCEPT !.random = r, !.alloc = [i \in 1 .. 20 |-> 0]]
        binary == generateBinaryWithTimestamp(p, t, env).value
    IN [timestamp |-> t, binary |-> binary.data, text |-> encode(binary).value.data] :
      p \in ValidPartitions, t \in ValidTimestamps, r \in Rands }

(***************************************************************************)
(* C18.  Sortability: when a valid triple (p1, t1, r1) has been packed and *)
(* encoded, its text is strictly smaller, in lexicographic order of ASCII  *)
(* codes, than the text of every valid triple with a larger timestamp and  *)
(* strictly larger than the text of every valid triple with a smaller      *)
(* timestamp, whatever the partitions and the randomness; and against      *)
(* every packed triple the order of the two texts is the bytewise order of *)
(* the two 20-byte buffers.                                                *)
(***************************************************************************)
C18_Sortability ==
  /\ PacksValid
  /\ IsCall(2, "encode")
  /\ hist[2].result.tag = "ok"
  => \A q \in PackedTexts :
       LET text == hist[2].result.value.data
           binary == hist[1].result.value.data
       IN /\ NumLess(hist[1].args[2], q.timestamp) => SeqLess(text, q.text)
          /\ NumLess(q.timestamp, hist[1].args[2]) => SeqLess(q.text, text)
          /\ SeqLess(text, q.text) <=> SeqLess(binary, q.binary)
          /\ SeqLess(q.text, text) <=> SeqLess(q.binary, binary)

\* the largest partition with timestamp 2^31-1 and all-ones randomness was
\* packed and encoded, and its text is smaller than the text of partition 0,
\* timestamp 2^31 and all-zero randomness
C18_Witness ==
  /\ PacksValid
  /\ hist[1].args = <<JsNum(63, Limb - 1), JsNum(127, Limb - 1)>>
  /\ hist[1].env.random = RandomPattern(1)
  /\ IsCall(2, "encode")
  /\ hist[2].result.tag = "ok"
  /\ \E q \in PackedTexts :
       /\ q.timestamp = JsNum(128, 0)
       /\ q.binary = [i \in 1 .. 20 |-> IF i = 3 THEN 128 ELSE 0]
       /\ SeqLess(hist[2].result.value.data, q.text)

(***************************************************************************)
(* C19.  generateRelated: for every existing id e that isPfid accepts,     *)
(* generateRelated(e) returns a valid id whose extracted partition is the  *)
(* partition extracted from e; for every e that isPfid rejects it throws a *)
(* PfidError with code invalid_pfid and produces no id.                    *)
(***************************************************************************)
C19_GenerateRelated ==
  \A i \in 1 .. Len(hist) :
    hist[i].op = "generateRelated" =>
      IF isPfid(hist[i].args[1])
      THEN /\ hist[i].result.tag = "return"
           /\ isPfid(hist[i].result.value)
           /\ extractPartition(hist[i].result.value).tag = "ok"
           /\ extractPartition(hist[i].result.value) = extractPartition(hist[i].args[1])
           /\ IsCall(i + 1, "extractPartition") =>
                hist[i + 1].result = extractPartition(hist[i].args[1])
      ELSE /\ hist[i].result.tag = "throw"
           /\ hist[i].result.value = Undefined
           /\ hist[i].result.error.name = "PfidError"
           /\ hist[i].result.error.code = "invalid_pfid"

\* the first call packs timestamp 1234567890000, partition 123456789 and ten
\* zero randomness bytes
PacksExample ==
  /\ IsCall(1, "generateBinaryWithTimestamp")
  /\ hist[1].args = <<Num(123456789), JsNum(73585, 16450640)>>
  /\ hist[1].env.random = [i \in 1 .. 10 |-> 0]

(***************************************************************************)
(* C20 as stated.  Concrete scenario: packing timestamp 1234567890000,     *)
(* partition 123456789 and ten zero randomness bytes yields the 20 bytes   *)
(* 00 00 01 1F 71 FB 07 07 5B CD 15 00 00 00 00 00 00 00 00 00.            *)
(***************************************************************************)
C20_ConcreteBytesAsStated ==
  PacksExample =>
    hist[1].result =
      Returns(Buf(<< 0, 0, 1, 31, 113, 251, 7, 7, 91, 205,
                     21, 0, 0, 0, 0, 0, 0, 0, 0, 0 >>))

(***************************************************************************)
(* C20 amended.  Packing timestamp 1234567890000, partition 123456789 and  *)
(* ten zero randomness bytes yields the 20 bytes                           *)
(* 01 1F 71 FB 04 50 07 5B CD 15 00 00 00 00 00 00 00 00 00 00.            *)
(***************************************************************************)
C20_ConcreteBytes ==
  PacksExample =>
    hist[1].result =
      Returns(Buf(<< 1, 31, 113, 251, 4, 80, 7, 91, 205, 21,
                     0, 0, 0, 0, 0, 0, 0, 0, 0, 0 >>))

\* the example was packed into memory that held 255 in every byte
C20_Witness ==
  /\ PacksExample
  /\ hist[1].env.alloc = [i \in 1 .. 20 |-> 255]
  /\ hist[1].result.tag = "return"

\* the timestamp the i-th call, a generator, packs
TimestampUsed(i) ==
  IF hist[i].op = "generate" THEN hist[i].env.now ELSE hist[i].args[2]

\* the 20 bytes behind the text the i-th call, a generator, returns
BinaryBehind(i) ==
  generateBinaryWithTimestamp(hist[i].args[1], TimestampUsed(i), hist[i].env).value.data

\* calls i and j are returning calls of the same generator, generate or
\* generateWithTimestamp, with the same partition
SameGeneratorTwice(i, j) ==
  /\ i < j /\ j <= Len(hist)
  /\ hist[i].op \in {"generate", "generateWithTimestamp"}
  /\ hist[j].op = hist[i].op
  /\ hist[i].result.tag = "return" /\ hist[j].result.tag = "return"
  /\ hist[i].args[1] = hist[j].args[1]

(***************************************************************************)
(* C21.  No collision without equal randomness: when generate, or          *)
(* generateWithTimestamp, has been called twice with the same partition,   *)
(* the two returned ids are equal only if the timestamps used and the ten  *)
(* random bytes drawn are both equal; calls that differ in the timestamp   *)
(* or in the random bytes return different texts, made from different      *)
(* binaries.                                                               *)
(***************************************************************************)
C21_NoCollision ==
  \A i, j \in 1 .. Len(hist) :
    SameGeneratorTwice(i, j) =>
      LET sameTriple == /\ TimestampUsed(i) = TimestampUsed(j)
                        /\ hist[i].env.random = hist[j].env.random
      IN /\ hist[i].result.value = hist[j].result.value => sameTriple
         /\ ~ sameTriple =>
              /\ hist[i].result.value # hist[j].result.value
              /\ BinaryBehind(i) # BinaryBehind(j)

\* generate was called twice with the same partition and the same clock
\* reading and drew different random bytes
C21_Witness ==
  /\ SameGeneratorTwice(1, 2)
  /\ hist[1].op = "generate"
  /\ hist[1].env.now = hist[2].env.now
  /\ hist[1].env.random # hist[2].env.random
  /\ hist[1].result.value # hist[2].result.value

(***************************************************************************)
(* C22.  Reserved zero value: zero() returns the string of 32 '0'          *)
(* characters, and no call of generate, generateWithTimestamp,             *)
(* generateExample, generateRelated or generateRoot that returns an id     *)
(* returns that string, whatever the clock reading and the random bytes.   *)
(***************************************************************************)
C22_ReservedZero ==
  \A i \in 1 .. Len(hist) :
    /\ hist[i].op = "zero" => hist[i].result = Returns(Str([k \in 1 .. 32 |-> 48]))
    /\ /\ hist[i].op \in {"generate", "generateWithTimestamp", "generateExample",
                          "generateRelated", "generateRoot"}
       /\ hist[i].result.tag = "return"
       => hist[i].result.value # Str([k \in 1 .. 32 |-> 48])

\* the i-th call takes the buffer a binary generator has just packed
TakesPacked(i) ==
  /\ i > 1 /\ i <= Len(hist)
  /\ hist[i - 1].op \in {"generateBinaryWithTimestamp", "generateBinary"}
  /\ hist[i - 1].result.tag = "return"
  /\ hist[i].args = <<hist[i - 1].result.value>>

(***************************************************************************)
(* C23.  Cross-port agreement on well-formed inputs: for the 20 bytes      *)
(* packed from a valid partition, timestamp and randomness, encode returns *)
(* what the Elixir Pfid.encode returns for the same bytes; for every       *)
(* lowercase text isPfid accepts, decode returns what Pfid.decode returns  *)
(* and extractPartition returns what Pfid.extract_partition returns.       *)
(***************************************************************************)
C23_PortsAgreeOnWellFormed ==
  \A i \in 1 .. Len(hist) :
    /\ hist[i].op = "encode" /\ TakesPacked(i) =>
         /\ hist[i].result.tag = "ok"
         /\ hist[i].result = Pfid_encode(hist[i].args[1])
    /\ hist[i].op = "decode" /\ isPfid(hist[i].args[1]) =>
         /\ hist[i].result.tag = "ok"
         /\ hist[i].result = Pfid_decode(hist[i].args[1])
    /\ hist[i].op = "extractPartition" /\ isPfid(hist[i].args[1]) =>
         /\ hist[i].result.tag = "ok"
         /\ hist[i].result = extract_partition(hist[i].args[1])

\* a buffer packed by generateBinary for partition 123456789 went through
\* encode and decode
C23_Witness ==
  /\ IsCall(1, "generateBinary")
  /\ hist[1].args = <<Num(123456789)>>
  /\ IsCall(2, "encode") /\ TakesPacked(2)
  /\ IsCall(3, "decode")
  /\ hist[3].result.tag = "ok"

\* two outcomes agree: both accept with the same value or both reject with
\* the same error code, and neither is a raised exception
SameOutcome(a, b) ==
  /\ a.tag \in {"ok", "fail"}
  /\ b.tag = a.tag
  /\ a.tag = "ok" => a.value = b.value
  /\ a.tag = "fail" => a.error.code = b.error.code

(***************************************************************************)
(* C24.  Cross-port agreement on arbitrary inputs: for every 20-byte       *)
(* buffer, the two high bits of byte 6 set or not, encode has the outcome  *)
(* of the Elixir Pfid.encode, and for every string, ids in uppercase and a *)
(* valid id followed by a newline included, decode, extractPartition and   *)
(* isPfid have the outcome of Pfid.decode, Pfid.extract_partition and      *)
(* Pfid.is_pfid?: the same value or the same error code, and no raised     *)
(* exception.                                                              *)
(***************************************************************************)
C24_PortsAgreeOnAllInputs ==
  \A i \in 1 .. Len(hist) :
    /\ /\ hist[i].op = "encode"
       /\ hist[i].args[1].kind = "buffer"
       /\ Len(hist[i].args[1].data) = 20
       => SameOutcome(hist[i].result, Pfid_encode(hist[i].args[1]))
    /\ hist[i].op = "decode" /\ hist[i].args[1].kind = "string" =>
         SameOutcome(hist[i].result, Pfid_decode(hist[i].args[1]))
    /\ hist[i].op = "extractPartition" /\ hist[i].args[1].kind = "string" =>
         SameOutcome(hist[i].result, extract_partition(hist[i].args[1]))
    /\ hist[i].op = "isPfid" /\ hist[i].args[1].kind = "string" =>
         hist[i].result = Returns(Bool(is_pfid(hist[i].args[1])))

(***************************************************************************)
(* C25.  Actual bit layout of encode: for every 20-byte buffer encode      *)
(* returns ok with a text whose character 0 is the symbol of the top 3     *)
(* bits of byte 0, whose characters 1..9 are the symbols of the nine 5-bit *)
(* groups of the 45 timestamp bits that follow, whose characters 10..15    *)
(* are the six 5-bit groups of the low 30 bits of bytes 6..9 and whose     *)
(* characters 16..31 are the sixteen 5-bit groups of bytes 10..19; the top *)
(* 2 bits of byte 6 are skipped: whatever they are, the text is the same.  *)
(* Stated of the latest call of the session; every call is the latest one  *)
(* in the state it leads to.                                               *)
(***************************************************************************)
C25_ActualLayout ==
  \A i \in { Len(hist) } \ { 0 } :
    /\ hist[i].op = "encode"
    /\ hist[i].args[1].kind = "buffer"
    /\ Len(hist[i].args[1].data) = 20
    => LET bytes == hist[i].args[1].data
           text == hist[i].result.value.data
           partition == ((bytes[7] % 64) * 256 + bytes[8]) * 65536 + bytes[9] * 256 + bytes[10]
       IN /\ hist[i].result.tag = "ok"
          /\ Len(text) = 32
          /\ text[1] = SymbolOf(bytes[1] \div 32)
          /\ \A c \in 1 .. 9 :
               text[c + 1] = SymbolOf(FiveBits(SubSeq(bytes, 1, 6), 3 + 5 * (c - 1)))
          /\ \A c \in 10 .. 15 :
               text[c + 1] = SymbolOf((partition \div (32 ^ (15 - c))) % 32)
          /\ \A c \in 16 .. 31 :
               text[c + 1] = SymbolOf(FiveBits(SubSeq(bytes, 11, 20), 5 * (c - 16)))
          /\ \A k \in 0 .. 3 :
               encode(Buf([bytes EXCEPT ![7] = 64 * k + (@ % 64)])) = hist[i].result

\* encode took the example binary with the two high bits of byte 6 set
C25_Witness ==
  /\ IsCall(1, "encode")
  /\ hist[1].args[1] = Buf([ExampleBinary EXCEPT ![7] = 192 + (@ % 64)])
  /\ hist[1].result.tag = "ok"

\* the cursor went bit by bit over the whole 20-byte buffer: the k-th
\* iteration is at bit offset k-1 and touches bit k-1 of the buffer, the byte
\* index stays in 0..19, and the offset after the last iteration is 160
FullSweep(visits) ==
  /\ Len(visits) = 160
  /\ \A k \in 1 .. Len(visits) :
       /\ visits[k].bitOffset = k - 1
       /\ visits[k].byteIndex \in 0 .. 19
       /\ 8 * visits[k].byteIndex + (7 - visits[k].bitIndex) = k - 1
  /\ visits[Len(visits)].bitOffset + 1 = 160

\* the call runs unsafeDecode on a string of 32 characters
RunsUnsafeDecode(call) ==
  /\ call.op = "decode"
  /\ call.args[1].kind = "string"
  /\ Len(call.args[1].data) = 32
  /\ call.args[1].data[1] \in 48 .. 55

\* the call runs unsafeEncode on a buffer of 20 bytes
RunsUnsafeEncode(call) ==
  /\ call.op = "encode"
  /\ call.args[1].kind = "buffer"
  /\ Len(call.args[1].data) = 20

(***************************************************************************)
(* C26 as stated.  Bit-cursor bounds: in every run of unsafeEncode on a    *)
(* 20-byte buffer and of unsafeDecode on a 32-character string the bit     *)
(* offset goes up by one per bit, every byte index is in 0..19, every bit  *)
(* of the buffer is visited exactly once and the run ends with the bit     *)
(* offset at 160.                                                          *)
(***************************************************************************)
C26_CursorBoundsEveryRun ==
  \A i \in 1 .. Len(hist) :
    /\ RunsUnsafeEncode(hist[i]) => FullSweep(unsafeEncodeVisits)
    /\ RunsUnsafeDecode(hist[i]) => FullSweep(unsafeDecodeVisits(hist[i].args[1].data))

(***************************************************************************)
(* C26 amended.  In every run of unsafeEncode on a 20-byte buffer, and in  *)
(* every run of unsafeDecode on a 32-character string all of whose         *)
(* characters decode, the bit offset goes up by one per bit, every byte    *)
(* index is in 0..19, every bit of the buffer is visited exactly once and  *)
(* the run ends with the bit offset at 160; a run of unsafeDecode on a     *)
(* string with a character that does not decode throws before the first    *)
(* bit is written, and decode returns a failure.                           *)
(***************************************************************************)
C26_CursorBounds ==
  \A i \in 1 .. Len(hist) :
    /\ RunsUnsafeEncode(hist[i]) =>
         FullSweep(unsafeEncodeVisits) /\ hist[i].result.tag = "ok"
    /\ RunsUnsafeDecode(hist[i]) =>
         IF \A k \in 1 .. 32 : ~ decodeCharThrows(hist[i].args[1].data[k])
         THEN /\ FullSweep(unsafeDecodeVisits(hist[i].args[1].data))
              /\ hist[i].result.tag = "ok"
         ELSE /\ unsafeDecodeVisits(hist[i].args[1].data) = <<>>
              /\ hist[i].result.tag = "fail"
              /\ unsafeDecode(hist[i].args[1].data).tag = "throw"

\* the buffer packed for partition 1 and timestamp 1 went through unsafeEncode,
\* and its text through unsafeDecode
C26_Witness ==
  /\ IsCall(1, "generateBinaryWithTimestamp")
  /\ hist[1].args = <<Num(1), JsNum(0, 1)>>
  /\ IsCall(2, "encode") /\ RunsUnsafeEncode(hist[2])
  /\ IsCall(3, "decode") /\ RunsUnsafeDecode(hist[3])
  /\ hist[3].result.tag = "ok"

(***************************************************************************)
(* C27.  Decode output invariant: every buffer decode returns with ok has  *)
(* exactly 20 bytes and the two high bits of byte 6 at 0, so that bytes    *)
(* 6..9 read as a big-endian integer are in [0, 2^30-1].                   *)
(***************************************************************************)
C27_DecodeOutput ==
  \A i \in 1 .. Len(hist) :
    hist[i].op = "decode" /\ hist[i].result.tag = "ok" =>
      LET bytes == hist[i].result.value.data
      IN /\ hist[i].result.value.kind = "buffer"
         /\ Len(bytes) = 20
         /\ \A k \in 1 .. 20 : bytes[k] \in 0 .. 255
         /\ bytes[7] \div 64 = 0
         /\ NumLeq(Num(0), ReadUInt32BE(bytes, 6))
         /\ NumLeq(ReadUInt32BE(bytes, 6), JsNum(63, Limb - 1))

\* decode accepted "7ZZZZZZZZZZZZZZZZZZZZZZZZZZZZZZZ", whose partition
\* characters are all 31, and byte 6 of the buffer is 0x3F
C27_Witness ==
  /\ IsCall(1, "decode")
  /\ hist[1].args[1] = Str(Upper(MaxText))
  /\ hist[1].result.tag = "ok"
  /\ hist[1].result.value.data[7] = 63

(***************************************************************************)
(* C28.  Validator as gate: decode returns ok for a string exactly when    *)
(* isPfid returns true for it and exactly when extractPartition returns ok *)
(* for it; no string is accepted by decode and rejected by isPfid or by    *)
(* extractPartition.                                                       *)
(***************************************************************************)
C28_ValidatorAsGate ==
  \A i \in 1 .. Len(hist) :
    /\ hist[i].op \in {"decode", "isPfid", "extractPartition"}
    /\ hist[i].args[1].kind = "string"
    => LET s == hist[i].args[1]
           decodes == IF hist[i].op = "decode" THEN hist[i].result.tag = "ok"
                      ELSE decode(s).tag = "ok"
           validates == IF hist[i].op = "isPfid" THEN hist[i].result = Returns(Bool(TRUE))
                        ELSE isPfid(s)
           extracts == IF hist[i].op = "extractPartition" THEN hist[i].result.tag = "ok"
                       ELSE extractPartition(s).tag = "ok"
       IN /\ decodes <=> validates
          /\ decodes <=> extracts

(***************************************************************************)
(* C29.  Random partition range: whatever 4 random bytes are drawn,        *)
(* generatePartition returns the non-negative integer made of the low 30   *)
(* bits of those bytes read as a 32-bit big-endian value, so the result is *)
(* in [0, 2^30-1] and never negative; and every value of the range is      *)
(* reachable: drawing the four big-endian bytes of v returns v.            *)
(***************************************************************************)
C29_RandomPartitionRange ==
  /\ \A i \in 1 .. Len(hist) :
       hist[i].op = "generatePartition" =>
         LET r == hist[i].env.random4
             low30 == (((r[1] % 64) * 256 + r[2]) * 256 + r[3]) * 256 + r[4]
         IN /\ hist[i].result = Returns(Num(low30))
            /\ PartitionInRange(hist[i].result.value)
            /\ hist[i].result.value.data[1] >= 0
            /\ hist[i].result.value.data[2] \in 0 .. Limb - 1
  /\ \A v \in ValidPartitions :
       generatePartition([NoEnv EXCEPT !.random4 = BigEndian32(v)]) = Returns(v)

\* generatePartition drew four bytes 0xFF and returned 2^30-1
C29_Witness ==
  /\ IsCall(1, "generatePartition")
  /\ hist[1].env.random4 = <<255, 255, 255, 255>>
  /\ hist[1].result = Returns(JsNum(63, Limb - 1))

\* what a call of a pure operation returns when it is the first call made
FirstCall(op, x) ==
  CASE op = "isPfid" -> Returns(Bool(isPfid(x)))
    [] op = "encode" -> encode(x)
    [] op = "decode" -> decode(x)
    [] op = "extractPartition" -> extractPartition(x)

\* the memory contents allocUnsafe may hand to a call: the test contents and
\* what an earlier call of the session left
AnyMemory ==
  Allocs \cup { hist[j].env.alloc : j \in { k \in 1 .. Len(hist) : Len(hist[k].env.alloc) = 20 } }

====
